---- MODULE Spec2Model ----
(***************************************************************************)
(* A model of the selection core of nnabla-nas:                            *)
(*   - MixedOp   (nnabla_nas/contrib/misc.py)                              *)
(*   - Merging   (nnabla_nas/module/merging.py)                            *)
(*   - genotype2subnetlist (contrib/classification/ofa/modules.py)         *)
(*   - SearchNet parameter partition (contrib/zoph/zoph.py)                *)
(*   - DartsSearcher (runner/searcher/darts.py)                            *)
(*   - min_divisible_value, get_same_padding (ofa_utils/common_tools.py)   *)
(*   - ConvLayer, MBConvLayer, SeparableConvBn (ofa/modules.py)            *)
(*   - ZophBlock, ZophCell, SearchNet, TrainNet (contrib/zoph/zoph.py)     *)
(* Each component has its own specification over its own variables; the    *)
(* variables of the other components stay at their initial values.         *)
(***************************************************************************)
EXTENDS Integers, Sequences, FiniteSets, TLC

VARIABLES
    \* ---- MixedOp instance (misc.py:125-189)
    mo_state,      \* "none" | "ok" | "raised": outcome of MixedOp.__init__
    mo_arg_mode,   \* the mode argument MixedOp.__init__ was called with
    mo_attrs,      \* names of the attributes __init__ has stored so far
    mo_active,     \* self._active
    mo_mode,       \* self._mode
    mo_ops,        \* self._ops: the operators, here their kernel sizes
    mo_alpha,      \* self._alpha.d, flattened
    mo_alpha_g,    \* self._alpha.g, flattened: [set, num, den], num[i]/den
    mo_need_grad,  \* op.need_grad of every operator
    mo_warned,     \* logger.warn was called by a forward call
    call_status,   \* "none" | "returned" | "raised": the last forward call
    call_in,       \* the input tensor of the last forward call
    call_active,   \* self._active as the last forward call found it
    invoked,       \* the operators the last forward call ran: <<position, input>>
    out,           \* the tensor the last forward call returned
    \* ---- Merging instance (merging.py:6-32)
    mg_state,      \* "none" | "ok" | "raised": outcome of Merging.__init__
    mg_arg_mode,   \* the mode argument Merging.__init__ was called with
    mg_attrs,      \* names of the attributes __init__ has stored so far
    mg_mode,       \* self._mode
    mg_axis,       \* self._axis
    \* ---- genotype2subnetlist and its caller (ofa/modules.py:54-76)
    op_candidates0, \* the candidate list as the caller built it
    op_candidates, \* the caller's candidate list object, as it is now
    g_status,      \* "none" | "returned" | "raised": the last decode
    g_genotype,    \* the genotype of the last decode
    g_subnets,     \* subnet_list of the last decode
    g_ret,         \* what it returned: [ks_list, expand_ratio_list, depth_list]
    \* ---- SearchNet parameters and DartsSearcher (zoph.py, darts.py)
    params,        \* model.get_parameters(): key -> [d, g, need_grad]
    optimizer,     \* optimizer[key]: the keys given to set_parameters
    accum,         \* [train |-> accum_train, valid |-> accum_valid]
    s_pc,          \* "new" | "started": callback_on_start has run
    steps,         \* train/valid steps taken so far
    last_step,     \* "none" | "train" | "valid": the last step taken
    snapshot,      \* key -> d of every parameter before the last step
    s_log,         \* the calls the last step made on its collaborators
    s_batches,     \* the micro-batches the loader gave to the last step
    \* ---- a call of min_divisible_value (ofa_utils/common_tools.py:92-98)
    md_n1,         \* the argument n1
    md_v1,         \* the argument v1
    md_v,          \* the local v1 as the loop has decremented it
    md_pc,         \* "new" | "loop" | "returned" | "raised"
    md_ret,        \* the value returned
    \* ---- the construction of one convolutional layer (ofa/modules.py)
    cl_state,      \* "none" | "ok" | "raised": outcome of the constructor
    cl_kind,       \* "ConvLayer" | "MBConvLayer" | "SeparableConvBn"
    cl_kernel,     \* the kernel argument, a pair
    cl_dilation,   \* the dilation the layer's convolution works with, a pair
    cl_conv,       \* what the (depthwise) Mo.Conv was built with
    \* ---- the construction of one ZophCell (zoph.py:206-270)
    zc_state,      \* "none" | "ok" | "raised": outcome of ZophCell.__init__
    zc_parents,    \* the shapes of the cell's parents, each 4-dimensional
    zc_reducing,   \* self._reducing
    zc_n_modules,  \* self._n_modules
    zc_nodes,      \* the modules appended to the cell, in order
    zc_inputs,     \* projected_inputs as handed to the blocks: node numbers
    \* ---- the construction of one ZophBlock (zoph.py:158-203)
    zb_state,      \* "none" | "ok": outcome of ZophBlock.__init__
    zb_parents,    \* how many parents the block was given
    zb_candidates, \* self._candidates: the candidate classes, by name
    zb_join_parameters, \* the length of self._join_parameters
    zb_nodes,      \* the modules appended to the block, in order
    \* ---- the construction of one SearchNet or TrainNet (zoph.py:273-509)
    sn_state,      \* "none" | "ok" | "raised": outcome of the constructor
    sn_kind,       \* "SearchNet" | "TrainNet": the class constructed
    sn_args,       \* the arguments the caller passed
    sn_attrs,      \* the attributes SearchNet.__init__ stored
    sn_nodes,      \* the modules appended to the network, in order
    sn_wiring,     \* per cell reached: the positions its parents resolved to
    \* ---- the last call of Merging.call (merging.py:24-29)
    mc_status,     \* "none" | "returned"
    mc_in,         \* the inputs of the call, a tuple of tensors
    mc_out         \* what it returned: [tuple, value]

mixedVars == <<mo_state, mo_arg_mode, mo_attrs, mo_active, mo_mode, mo_ops, mo_alpha,
               mo_alpha_g, mo_need_grad, mo_warned, call_status, call_in,
               call_active, invoked, out>>
mergingVars == <<mg_state, mg_arg_mode, mg_attrs, mg_mode, mg_axis>>
genoVars == <<op_candidates0, op_candidates, g_status, g_genotype, g_subnets,
              g_ret>>
netVars == <<params, optimizer, accum, s_pc, steps, last_step, snapshot, s_log,
             s_batches>>
divVars == <<md_n1, md_v1, md_v, md_pc, md_ret>>
coreVars == <<mixedVars, mergingVars, genoVars, netVars>>
layerVars == <<cl_state, cl_kind, cl_kernel, cl_dilation, cl_conv>>
cellVars == <<zc_state, zc_parents, zc_reducing, zc_n_modules, zc_nodes,
              zc_inputs>>
blockVars == <<zb_state, zb_parents, zb_candidates, zb_join_parameters,
               zb_nodes>>
graphVars == <<sn_state, sn_kind, sn_args, sn_attrs, sn_nodes, sn_wiring>>
mcallVars == <<mc_status, mc_in, mc_out>>
extVars == <<divVars, layerVars, cellVars, blockVars, graphVars, mcallVars>>
vars == <<coreVars, extVars>>

(***************************************************************************)
(* Bounds of the model.                                                    *)
(***************************************************************************)
\* most operators in one MixedOp
MaxOps == 3
\* architecture parameters take the values 0..MaxAlpha
MaxAlpha == 2
\* input data values are 1..MaxInput
MaxInput == 2
\* exp(d) for d <= 0 is kept with ExpBits binary digits; below that it is 0
ExpBits == 1

(***************************************************************************)
(* Sequences, rationals and tensors.                                       *)
(***************************************************************************)
Range(s) == {s[i] : i \in DOMAIN s}

RECURSIVE SeqSum(_)
SeqSum(s) == IF s = <<>> THEN 0 ELSE Head(s) + SeqSum(Tail(s))

MaxOf(s) == CHOOSE m \in Range(s) : \A x \in Range(s) : x <= m

\* a rational is <<numerator, denominator>>, denominator > 0
RatMul(p, q) == <<p[1] * q[1], p[2] * q[2]>>
RatAdd(p, q) == <<p[1] * q[2] + q[1] * p[2], p[2] * q[2]>>
RatEq(p, q) == p[1] * q[2] = q[1] * p[2]

RECURSIVE RatSum(_)
RatSum(s) == IF s = <<>> THEN <<0, 1>> ELSE RatAdd(Head(s), RatSum(Tail(s)))

\* a tensor: its shape and one representative value per slice of the leading
\* axis (val is a rational for an operator's output, a sequence of rationals
\* for a stacked tensor); ok = FALSE is a call that raised
Tensor(shape, val) == [ok |-> TRUE, shape |-> shape, val |-> val]
NoTensor == [ok |-> FALSE, shape |-> <<>>, val |-> <<>>]

\* the test's input: nn.Variable([8, in_channels, 32, 32])
InChannels == {3}
OutChannels == {8}
InputShape(cin) == <<8, cin, 32, 32>>
Inputs(cin) == {Tensor(InputShape(cin), <<x, 1>>) : x \in 1..MaxInput}

(***************************************************************************)
(* The tensor library, as far as MixedOp uses it.                          *)
(***************************************************************************)
\* exp(d), d <= 0, in units of 2^-ExpBits; underflows to 0
Exp2(d) == IF d + ExpBits >= 0 THEN 2 ^ (d + ExpBits) ELSE 0

\* softmax of a vector: num[i] / den, the maximum subtracted first
softmax(a) ==
    LET m == MaxOf(a)
        num == [i \in DOMAIN a |-> Exp2(a[i] - m)]
    IN  [num |-> num, den |-> SeqSum(num)]

\* F.stack(*ts, axis=0): all shapes must agree
F_stack(ts) ==
    IF \E i \in DOMAIN ts : ~ts[i].ok \/ ts[i].shape # ts[1].shape
    THEN NoTensor
    ELSE Tensor(<<Len(ts)>> \o ts[1].shape, [i \in DOMAIN ts |-> ts[i].val])

\* numpy-style broadcasting of two shapes of the same rank
Broadcastable(s, t) ==
    /\ Len(s) = Len(t)
    /\ \A i \in DOMAIN s : s[i] = t[i] \/ s[i] = 1 \/ t[i] = 1
BroadcastShape(s, t) == [i \in DOMAIN s |-> IF s[i] = 1 THEN t[i] ELSE s[i]]

\* F.mul2(a, b) where b has one value per slice of the leading axis
F_mul2(a, b) ==
    IF ~a.ok \/ ~b.ok \/ ~Broadcastable(a.shape, b.shape)
       \/ Len(a.val) # Len(b.val)
    THEN NoTensor
    ELSE Tensor(BroadcastShape(a.shape, b.shape),
                [i \in DOMAIN a.val |-> RatMul(a.val[i], b.val[i])])

\* F.sum(a, axis): the axis is removed from the shape
F_sum(a, axis) ==
    IF ~a.ok \/ axis + 1 \notin DOMAIN a.shape
    THEN NoTensor
    ELSE Tensor([i \in 1..(Len(a.shape) - 1) |->
                    IF i <= axis THEN a.shape[i] ELSE a.shape[i + 1]],
                IF axis = 0 THEN RatSum(a.val) ELSE a.val)

\* a convolution of kernel k, cin -> cout channels, "same" padding; its value
\* is linear in the input, the kernel size standing for the weights
Conv(k, cin, cout, x) ==
    IF ~x.ok \/ Len(x.shape) # 4 \/ x.shape[2] # cin
    THEN NoTensor
    ELSE Tensor(<<x.shape[1], cout, x.shape[3], x.shape[4]>>,
                <<k * x.val[1], x.val[2]>>)

\* the operators of the test's Block: Conv 3x3, 5x5, 7x7, ...
Kernel(i) == 2 * i + 1

\* Python's seq[i] for a list of length n: the 1-based position, 0 = IndexError
PyIndex(n, i) ==
    IF 0 <= i /\ i < n THEN i + 1
    ELSE IF i < 0 /\ -n <= i THEN n + i + 1
    ELSE 0

(***************************************************************************)
(* MixedOp                                                                 *)
(***************************************************************************)
MixedOpModesMutant == {"max", "sample", "full", "mean"}
MixedOpModes == {"max", "sample", "full"}

\* the mode strings a caller passes: the supported ones and one that is not
ModeArgs == {"max", "sample", "full", "mean"}

NoGrad == [set |-> FALSE, num |-> <<>>, den |-> 1]

\* the channels a MixedOp was built for are those of its operators
mo_cin == mo_ops.cin
mo_cout == mo_ops.cout
mo_n == Len(mo_ops.kernels)

\* alpha_shape = (n,) + (1, 1, 1, 1)
AlphaShape(n) == <<n, 1, 1, 1, 1>>

\* self._active = -1
InitialActiveMutant == 0 + 0
InitialActive == -1

\* MixedOp.__init__(operators, mode, alpha): n operators Conv(cin, cout, k_i)
MixedOp_init(n, cin, cout, m, a) ==
    /\ mo_state = "none"
    /\ mo_arg_mode' = m
    /\ IF m \notin MixedOpModes
       THEN /\ mo_state' = "raised"
            /\ UNCHANGED <<mo_attrs, mo_active, mo_mode, mo_ops, mo_alpha,
                           mo_need_grad>>
       ELSE /\ mo_state' = "ok"
            /\ mo_attrs' = {"_active", "_mode", "_ops", "_alpha"}
            /\ mo_active' = InitialActive
            /\ mo_mode' = m
            /\ mo_ops' = [kernels |-> [i \in 1..n |-> Kernel(i)],
                          cin |-> cin, cout |-> cout]
            /\ mo_alpha' = a
            /\ mo_need_grad' = [i \in 1..n |-> TRUE]
    /\ UNCHANGED <<mo_alpha_g, mo_warned, call_status, call_in, call_active,
                   invoked, out>>
    /\ UNCHANGED <<mergingVars, genoVars, netVars, extVars>>

\* the axis F.sum reduces in 'full' mode
SumAxisMutant == 0 + 1
SumAxis == 0

\* the mixture weights of 'full' mode
MixWeightsMutant(a) == [num |-> [i \in DOMAIN a |-> 1], den |-> Len(a)]
MixWeights(a) == softmax(a)

\* the 'full' branch of MixedOp.call: all operators, softmax-weighted sum
FullForward(x) ==
    LET outs == [i \in 1..mo_n |->
                    Conv(mo_ops.kernels[i], mo_cin, mo_cout, x)]
        stacked == F_stack(outs)
        sm == MixWeights(mo_alpha)
        w == Tensor(AlphaShape(Len(mo_alpha)),
                    [i \in DOMAIN mo_alpha |-> <<sm.num[i], sm.den>>])
    IN  F_sum(F_mul2(stacked, w), SumAxis)

\* the position self._ops[self._active] selects
ActivePosMutant == IF mo_active <= 0 THEN 1 ELSE mo_active
ActivePos == PyIndex(mo_n, mo_active)

\* MixedOp.call(input)
MixedOp_call(x) ==
    /\ mo_state = "ok"
    /\ call_in' = x
    /\ call_active' = mo_active
    /\ IF mo_mode = "full"
       THEN /\ invoked' = [i \in 1..mo_n |-> <<i, x>>]
            /\ out' = FullForward(x)
            /\ call_status' = IF FullForward(x).ok THEN "returned" ELSE "raised"
            /\ UNCHANGED mo_warned
       ELSE /\ mo_warned' = (mo_warned \/ mo_active < 0)
            /\ IF ActivePos = 0
               THEN /\ invoked' = <<>>
                    /\ out' = NoTensor
                    /\ call_status' = "raised"
               ELSE LET r == Conv(mo_ops.kernels[ActivePos], mo_cin, mo_cout, x)
                    IN  /\ invoked' = <<(<<ActivePos, x>>)>>
                        /\ out' = r
                        /\ call_status' = IF r.ok THEN "returned" ELSE "raised"
    /\ UNCHANGED <<mo_state, mo_arg_mode, mo_attrs, mo_active, mo_mode, mo_ops, mo_alpha,
                   mo_alpha_g, mo_need_grad>>
    /\ UNCHANGED <<mergingVars, genoVars, netVars, extVars>>

\* ut.sample(pvals, mode): the indices (0-based) a draw can return; 'max' takes
\* the first maximal entry, 'sample' any entry of non-zero probability
sample(p, m) ==
    IF m = "max"
    THEN {i - 1 : i \in {j \in DOMAIN p.num :
                /\ \A k \in DOMAIN p.num : p.num[k] <= p.num[j]
                /\ \A k \in 1..(j - 1) : p.num[k] < p.num[j]}}
    ELSE {i - 1 : i \in {j \in DOMAIN p.num : p.num[j] > 0}}

\* op.need_grad = (self._active == i), for the operator at index i (0-based)
NeedGradOfMutant(act, i) == (act # i)
NeedGradOf(act, i) == (act = i)

\* probs = softmax(self._alpha.d.flat), as _update_active_idx computes it
SelectionProbsMutant(a) == [num |-> [i \in DOMAIN a |-> 1], den |-> Len(a)]
SelectionProbs(a) == softmax(a)

\* MixedOp._update_active_idx()
MixedOp_update_active_idx ==
    /\ mo_state = "ok"
    /\ mo_mode \in {"sample", "max"}
    /\ \E idx \in sample(SelectionProbs(mo_alpha), mo_mode) :
        /\ mo_active' = idx
        /\ mo_need_grad' = [i \in 1..mo_n |-> NeedGradOf(idx, i - 1)]
    /\ UNCHANGED <<mo_state, mo_arg_mode, mo_attrs, mo_mode, mo_ops, mo_alpha, mo_alpha_g,
                   mo_warned, call_status, call_in, call_active, invoked, out>>
    /\ UNCHANGED <<mergingVars, genoVars, netVars, extVars>>

\* one entry of -probs after probs[self._active] -= 1, in units of 1/den;
\* hot is den at the active position and 0 elsewhere
AlphaGradEntryMutant(pnum, hot) == pnum - hot
AlphaGradEntry(pnum, hot) == -(pnum - hot)

\* MixedOp._update_alpha_grad(): probs[active] -= 1; alpha.g = -probs
MixedOp_update_alpha_grad ==
    /\ mo_state = "ok"
    /\ LET p == softmax(mo_alpha)
           pos == PyIndex(Len(mo_alpha), mo_active)
       IN  /\ pos # 0
           /\ mo_alpha_g' =
                [set |-> TRUE,
                 num |-> [i \in DOMAIN mo_alpha |->
                            AlphaGradEntry(p.num[i],
                                           IF i = pos THEN p.den ELSE 0)],
                 den |-> p.den]
    /\ UNCHANGED <<mo_state, mo_arg_mode, mo_attrs, mo_active, mo_mode, mo_ops, mo_alpha,
                   mo_need_grad, mo_warned, call_status, call_in, call_active,
                   invoked, out>>
    /\ UNCHANGED <<mergingVars, genoVars, netVars, extVars>>

(***************************************************************************)
(* Merging                                                                 *)
(***************************************************************************)
MergingModes == {"concat", "add"}
MergingModeArgs == {"concat", "add", "mul"}

\* Merging.__init__(mode, axis)
Merging_init(m, axis) ==
    /\ mg_state = "none"
    /\ mg_arg_mode' = m
    /\ IF m \notin MergingModes
       THEN /\ mg_state' = "raised"
            /\ UNCHANGED <<mg_attrs, mg_mode, mg_axis>>
       ELSE /\ mg_state' = "ok"
            /\ mg_attrs' = {"_mode", "_axis"}
            /\ mg_mode' = m
            /\ mg_axis' = axis
    /\ UNCHANGED <<mixedVars, genoVars, netVars, extVars>>

\* most inputs of one call
MaxMerged == 3

\* a tensor, as far as merging goes: its entries along the merge axis
MergeTensors == UNION {[1..n -> 0..1] : n \in 1..2}

\* F.concatenate(*input, axis): the inputs one after the other on the axis
RECURSIVE concatenate(_)
concatenate(xs) == IF xs = <<>> THEN <<>> ELSE Head(xs) \o concatenate(Tail(xs))

\* sum(input): 0 + input[0] + input[1] + ..., element-wise
RECURSIVE sum(_)
sum(xs) ==
    IF Len(xs) = 1 THEN [i \in DOMAIN xs[1] |-> 0 + xs[1][i]]
    ELSE LET front == sum(SubSeq(xs, 1, Len(xs) - 1))
         IN  [i \in DOMAIN front |-> front[i] + xs[Len(xs)][i]]

\* Merging.call(*input): input is the tuple of the arguments
Merging_call(input) ==
    /\ mg_state = "ok"
    /\ mc_status' = "returned"
    /\ mc_in' = input
    /\ mc_out' =
        IF mg_mode = "concat" /\ Len(input) > 1
        THEN [tuple |-> FALSE, value |-> concatenate(input)]
        ELSE IF mg_mode = "add"
        THEN [tuple |-> FALSE, value |-> sum(input)]
        ELSE [tuple |-> TRUE, value |-> input]
    /\ UNCHANGED <<mixedVars, mergingVars, genoVars, netVars>>
    /\ UNCHANGED <<divVars, layerVars, cellVars, blockVars, graphVars>>

MergingCallIdle ==
    /\ mc_status = "none"
    /\ mc_in = <<>>
    /\ mc_out = [tuple |-> FALSE, value |-> <<>>]

\* a forward call on one to MaxMerged tensors; tensors that are added have
\* one shape
CallMerging ==
    \E k \in 1..MaxMerged :
        \E input \in [1..k -> MergeTensors] :
            /\ mg_mode = "add" =>
                    \A i \in 1..k : Len(input[i]) = Len(input[1])
            /\ Merging_call(input)

(***************************************************************************)
(* genotype2subnetlist                                                     *)
(***************************************************************************)
\* CANDIDATES: name -> ks, expand_ratio (0 stands for None)
CANDIDATES ==
    [c \in {"XP3 3x3", "XP3 5x5", "XP6 7x7", "skip_connect"} |->
        CASE c = "XP3 3x3" -> [ks |-> 3, expand_ratio |-> 3]
          [] c = "XP3 5x5" -> [ks |-> 5, expand_ratio |-> 3]
          [] c = "XP6 7x7" -> [ks |-> 7, expand_ratio |-> 6]
          [] OTHER -> [ks |-> 0, expand_ratio |-> 0]]

\* the depth at which a group is full
FullDepth == 4

\* the loop over subnet_list, from position i with counter d
RECURSIVE DepthScan(_, _, _, _)
DepthScan(subnets, i, d, depth_list) ==
    IF i > Len(subnets) THEN depth_list
    ELSE IF subnets[i] = "skip_connect"
         THEN IF d > 1
              THEN DepthScan(subnets, i + 1, 0, Append(depth_list, d))
              ELSE DepthScan(subnets, i + 1, d, depth_list)
    ELSE IF d = FullDepth
         THEN DepthScan(subnets, i + 1, 1, Append(depth_list, d))
    ELSE IF i = Len(subnets)
         THEN DepthScan(subnets, i + 1, d, Append(depth_list, d + 1))
    ELSE DepthScan(subnets, i + 1, d + 1, depth_list)

\* assert([d > 1 for d in depth_list]): the list itself is what is tested
DepthAssert(depth_list) == [i \in DOMAIN depth_list |-> depth_list[i] > 1] # <<>>

\* genotype2subnetlist(op_candidates, genotype); indices are 0-based
genotype2subnetlist(genotype) ==
    LET cands == Append(op_candidates, "skip_connect")
        subnet_list == [i \in DOMAIN genotype |-> cands[genotype[i] + 1]]
        ks_list == [i \in DOMAIN subnet_list |->
                        IF subnet_list[i] # "skip_connect"
                        THEN CANDIDATES[subnet_list[i]].ks ELSE 3]
        expand_ratio_list == [i \in DOMAIN subnet_list |->
                        IF subnet_list[i] # "skip_connect"
                        THEN CANDIDATES[subnet_list[i]].expand_ratio ELSE 4]
        depth_list == DepthScan(subnet_list, 1, 0, <<>>)
    IN  /\ op_candidates' = cands
        /\ g_genotype' = genotype
        /\ g_subnets' = subnet_list
        /\ IF DepthAssert(depth_list)
           THEN /\ g_status' = "returned"
                /\ g_ret' = [ks_list |-> ks_list,
                             expand_ratio_list |-> expand_ratio_list,
                             depth_list |-> depth_list]
           ELSE /\ g_status' = "raised"
                /\ g_ret' = [ks_list |-> <<>>, expand_ratio_list |-> <<>>,
                             depth_list |-> <<>>]
        /\ UNCHANGED op_candidates0
        /\ UNCHANGED <<mixedVars, mergingVars, netVars, extVars>>

\* the candidate lists callers pass
CandidateLists == {<<"XP3 3x3">>, <<"XP3 5x5">>}

\* longest genotype decoded
MaxGenotype == 5
\* most decodes with one list object
MaxCalls == 1

GenoIdle ==
    /\ op_candidates0 = <<>>
    /\ op_candidates = <<>>
    /\ g_status = "none"
    /\ g_genotype = <<>>
    /\ g_subnets = <<>>
    /\ g_ret = [ks_list |-> <<>>, expand_ratio_list |-> <<>>, depth_list |-> <<>>]

GenoInit ==
    /\ op_candidates0 \in CandidateLists
    /\ op_candidates = op_candidates0
    /\ g_status = "none"
    /\ g_genotype = <<>>
    /\ g_subnets = <<>>
    /\ g_ret = [ks_list |-> <<>>, expand_ratio_list |-> <<>>, depth_list |-> <<>>]

\* a caller decodes a genotype whose indices are in range of the list
Decode ==
    /\ Len(op_candidates) - Len(op_candidates0) < MaxCalls
    /\ \E len \in 0..MaxGenotype :
        \E genotype \in [1..len -> 0..Len(op_candidates)] :
            genotype2subnetlist(genotype)

(***************************************************************************)
(* SearchNet: the parameter partition                                      *)
(***************************************************************************)
\* parameter keys are strings, here sequences of characters
KeyStemW == <<"s", "t", "e", "m", "/", "W">>
KeyBnMean == <<"b", "n", "/", "m", "e", "a", "n">>
KeyJoin0 == <<"c", "0", "/", "j", "o", "i", "n", "/", "p">>
KeyJoin1 == <<"c", "1", "/", "_", "j", "o", "i", "n", "_", "p">>
ParamKeys == {KeyStemW, KeyBnMean, KeyJoin0, KeyJoin1}

\* Python's `pat in key` for strings
StrIn(pat, key) ==
    \E i \in 1..(Len(key) - Len(pat) + 1) :
        SubSeq(key, i, i + Len(pat) - 1) = pat

\* Module.get_parameters(grad_only): the keys of the parameters it yields
get_parameters(grad_only) ==
    {k \in DOMAIN params : grad_only => params[k].need_grad}

\* SearchNet.get_net_parameters(grad_only): 'join' not in key
get_net_parametersMutant(grad_only) ==
    {k \in get_parameters(grad_only) : ~StrIn(<<"J", "o", "i", "n">>, k)}
get_net_parameters(grad_only) ==
    {k \in get_parameters(grad_only) : ~StrIn(<<"j", "o", "i", "n">>, k)}

\* SearchNet.get_arch_parameters(grad_only): 'join' in key
get_arch_parameters(grad_only) ==
    {k \in get_parameters(grad_only) : StrIn(<<"j", "o", "i", "n">>, k)}

(***************************************************************************)
(* DartsSearcher                                                           *)
(***************************************************************************)
\* the gradient of one micro-batch's loss, the same for every parameter
Batches == {1, 2}
\* largest accum_train / accum_valid
MaxAccum == 2
\* most train/valid steps of one run
MaxSteps == 2

ZeroGrad == [train |-> 0, valid |-> 0]

\* what callback_on_start hands to each optimizer
TrainOptimizerParametersMutant == get_parameters(TRUE)
TrainOptimizerParameters == get_net_parameters(TRUE)
ValidOptimizerParametersMutant == get_net_parameters(TRUE)
ValidOptimizerParameters == get_arch_parameters(TRUE)

\* DartsSearcher.callback_on_start()
callback_on_start ==
    /\ s_pc = "new"
    /\ s_pc' = "started"
    /\ optimizer' = [train |-> TrainOptimizerParameters,
                     valid |-> ValidOptimizerParameters]
    /\ s_log' = <<(<<"update_graph", "train">>), <<"set_parameters", "train">>,
                  <<"update_graph", "valid">>, <<"set_parameters", "valid">>>>
    /\ UNCHANGED <<params, accum, steps, last_step, snapshot, s_batches>>
    /\ UNCHANGED <<mixedVars, mergingVars, genoVars, extVars>>

\* Optimizer.zero_grad(): the gradient buffers of its parameters are cleared
zero_grad(ps, key) ==
    [k \in DOMAIN ps |->
        IF k \in optimizer[key] THEN [ps[k] EXCEPT !.g = ZeroGrad] ELSE ps[k]]

\* loss.backward() of one micro-batch of a phase: every parameter that needs
\* a gradient accumulates the batch's gradient b
backward(ps, phase, b) ==
    [k \in DOMAIN ps |->
        IF ps[k].need_grad
        THEN [ps[k] EXCEPT !.g[phase] = @ + b]
        ELSE ps[k]]

RECURSIVE backward_all(_, _, _)
backward_all(ps, phase, bs) ==
    IF bs = <<>> THEN ps
    ELSE backward_all(backward(ps, phase, Head(bs)), phase, Tail(bs))

\* Optimizer.update(): its parameters move against their gradient buffers
update(ps, key) ==
    [k \in DOMAIN ps |->
        IF k \in optimizer[key]
        THEN [ps[k] EXCEPT !.d = @ - (ps[k].g.train + ps[k].g.valid)]
        ELSE ps[k]]

\* the calls of one pass of the loop body: the loader, the loss, the error
\* and the monitor
LoopBody(phase) ==
    <<(<<"next", phase>>), <<"loss.forward", phase>>,
      <<"loss.backward", phase>>, <<"err.forward", phase>>,
      <<"monitor.update", phase>>, <<"monitor.update", phase>>>>

\* the calls of the loop, once per micro-batch
LoopLogMutant(phase, n) == IF n = 0 THEN <<>> ELSE LoopBody(phase)
RECURSIVE LoopLog(_, _)
LoopLog(phase, n) ==
    IF n = 0 THEN <<>>
    ELSE LoopBody(phase) \o LoopLog(phase, n - 1)

\* DartsSearcher.train_on_batch(key), with the batches the loader yields
train_on_batch(key, bs) ==
    /\ s_pc = "started"
    /\ steps < MaxSteps
    /\ Len(bs) = accum.train
    /\ snapshot' = [k \in DOMAIN params |-> params[k].d]
    /\ params' = update(backward_all(zero_grad(params, key), "train", bs),
                        key)
    /\ s_log' = <<(<<"zero_grad", key>>)>> \o LoopLog("train", accum.train)
                \o <<(<<"update", key>>)>>
    /\ s_batches' = bs
    /\ last_step' = "train"
    /\ steps' = steps + 1
    /\ UNCHANGED <<optimizer, accum, s_pc>>
    /\ UNCHANGED <<mixedVars, mergingVars, genoVars, extVars>>

\* DartsSearcher.valid_on_batch(), with the batches the loader yields
valid_on_batch(bs) ==
    /\ s_pc = "started"
    /\ steps < MaxSteps
    /\ Len(bs) = accum.valid
    /\ snapshot' = [k \in DOMAIN params |-> params[k].d]
    /\ params' = update(backward_all(zero_grad(params, "valid"), "valid", bs),
                        "valid")
    /\ s_log' = <<(<<"zero_grad", "valid">>)>> \o LoopLog("valid", accum.valid)
                \o <<(<<"update", "valid">>)>>
    /\ s_batches' = bs
    /\ last_step' = "valid"
    /\ steps' = steps + 1
    /\ UNCHANGED <<optimizer, accum, s_pc>>
    /\ UNCHANGED <<mixedVars, mergingVars, genoVars, extVars>>

NetIdle ==
    /\ params = <<>>
    /\ optimizer = [train |-> {}, valid |-> {}]
    /\ accum = [train |-> 0, valid |-> 0]
    /\ s_pc = "new"
    /\ steps = 0
    /\ last_step = "none"
    /\ snapshot = <<>>
    /\ s_log = <<>>
    /\ s_batches = <<>>

\* a SearchNet whose parameters need a gradient or not, and a searcher whose
\* optimizers hold no parameters yet
NetInit ==
    /\ \E ng \in [ParamKeys -> BOOLEAN] :
        params = [k \in ParamKeys |->
                    [d |-> 0, g |-> ZeroGrad, need_grad |-> ng[k]]]
    /\ optimizer = [train |-> {}, valid |-> {}]
    /\ accum \in [{"train", "valid"} -> 1..MaxAccum]
    /\ s_pc = "new"
    /\ steps = 0
    /\ last_step = "none"
    /\ snapshot = [k \in ParamKeys |-> 0]
    /\ s_log = <<>>
    /\ s_batches = <<>>

\* one training step with the default key
TrainStep == \E bs \in [1..accum.train -> Batches] : train_on_batch("train", bs)

ValidStep == \E bs \in [1..accum.valid -> Batches] : valid_on_batch(bs)

(***************************************************************************)
(* min_divisible_value                                                     *)
(***************************************************************************)
\* largest channel count
MaxChannels == 8
\* requested group counts are -MaxGroups..MaxGroups
MaxGroups == 9
\* the loop is followed while its counter is at least -LoopFloor
LoopFloor == 12

\* Python's a % b for b # 0: the result has the sign of b
PyMod(a, b) == IF b > 0 THEN a % b ELSE -((-a) % (-b))

\* v1 -= 1
DecrementMutant(v) == v - 2
Decrement(v) == v - 1

\* min_divisible_value(n1, v1), up to the loop: if v1 >= n1: return n1
min_divisible_value(n1, v1) ==
    /\ md_pc = "new"
    /\ md_n1' = n1
    /\ md_v1' = v1
    /\ md_v' = v1
    /\ IF v1 >= n1
       THEN md_pc' = "returned" /\ md_ret' = n1
       ELSE md_pc' = "loop" /\ md_ret' = 0
    /\ UNCHANGED <<coreVars, layerVars, cellVars, blockVars, graphVars,
                   mcallVars>>

\* one evaluation of the loop condition: while n1 % v1 != 0: v1 -= 1;
\* n1 % 0 raises ZeroDivisionError
min_divisible_value_loop ==
    /\ md_pc = "loop"
    /\ md_v >= -LoopFloor
    /\ IF md_v = 0
       THEN md_pc' = "raised" /\ UNCHANGED <<md_v, md_ret>>
       ELSE IF PyMod(md_n1, md_v) # 0
            THEN md_v' = Decrement(md_v) /\ UNCHANGED <<md_pc, md_ret>>
            ELSE md_pc' = "returned" /\ md_ret' = md_v /\ UNCHANGED md_v
    /\ UNCHANGED <<md_n1, md_v1>>
    /\ UNCHANGED <<coreVars, layerVars, cellVars, blockVars, graphVars,
                   mcallVars>>

DivIdle ==
    /\ md_n1 = 0
    /\ md_v1 = 0
    /\ md_v = 0
    /\ md_pc = "new"
    /\ md_ret = 0

(***************************************************************************)
(* The convolutional layers of the OFA catalog                             *)
(***************************************************************************)
\* kernel sizes are 1..MaxKernel on each axis
MaxKernel == 4
\* dilations are 1..MaxDilation on each axis
MaxDilation == 2

\* get_same_padding(kernel_size) for a pair: each size must be odd
get_same_padding(kernel_size) ==
    IF \E i \in 1..2 : ~(kernel_size[i] % 2 > 0)
    THEN [ok |-> FALSE, val |-> <<>>]
    ELSE [ok |-> TRUE, val |-> [i \in 1..2 |-> kernel_size[i] \div 2]]

\* min_divisible_value(n1, v1) run to its end, from the loop counter v
RECURSIVE min_divisible_loop_run(_, _)
min_divisible_loop_run(n1, v) ==
    IF v < -LoopFloor THEN [pc |-> "loop", ret |-> 0]
    ELSE IF v = 0 THEN [pc |-> "raised", ret |-> 0]
    ELSE IF PyMod(n1, v) # 0 THEN min_divisible_loop_run(n1, Decrement(v))
    ELSE [pc |-> "returned", ret |-> v]

min_divisible_value_run(n1, v1) ==
    IF v1 >= n1 THEN [pc |-> "returned", ret |-> n1]
    ELSE min_divisible_loop_run(n1, v1)

NoConv == [kernel |-> <<>>, pad |-> <<>>, group |-> 0]

\* the kernel SeparableConvBn builds its depthwise convolution with
DepthwiseKernel == <<3, 3>>

\* ConvLayer.__init__(in_channels, out_channels, kernel, dilation=..., group=...)
ConvLayer_init(in_channels, kernel, dilation, group) ==
    /\ cl_state = "none"
    /\ cl_kind' = "ConvLayer"
    /\ cl_kernel' = kernel
    /\ cl_dilation' = dilation
    /\ LET padding == get_same_padding(kernel)
           g == min_divisible_value_run(in_channels, group)
       IN  IF ~padding.ok \/ g.pc # "returned"
           THEN cl_state' = "raised" /\ cl_conv' = NoConv
           ELSE /\ cl_state' = "ok"
                /\ cl_conv' = [kernel |-> kernel,
                               pad |-> <<padding.val[1] * dilation[1],
                                         padding.val[2] * dilation[2]>>,
                               group |-> g.ret]
    /\ UNCHANGED <<coreVars, divVars, cellVars, blockVars, graphVars,
                   mcallVars>>

\* MBConvLayer.__init__(in_channels, out_channels, kernel, expand_ratio=...,
\* group=...); group 0 stands for None; the depthwise Mo.Conv is given no
\* dilation and works with its default, 1 on each axis
MBConvLayer_init(in_channels, kernel, expand_ratio, group) ==
    /\ cl_state = "none"
    /\ cl_kind' = "MBConvLayer"
    /\ cl_kernel' = kernel
    /\ cl_dilation' = <<1, 1>>
    /\ LET feature_dim == in_channels * expand_ratio
           pad == get_same_padding(kernel)
           g == IF group = 0 THEN [pc |-> "returned", ret |-> feature_dim]
                ELSE min_divisible_value_run(feature_dim, group)
       IN  IF ~pad.ok \/ g.pc # "returned"
           THEN cl_state' = "raised" /\ cl_conv' = NoConv
           ELSE /\ cl_state' = "ok"
                /\ cl_conv' = [kernel |-> kernel, pad |-> pad.val,
                               group |-> g.ret]
    /\ UNCHANGED <<coreVars, divVars, cellVars, blockVars, graphVars,
                   mcallVars>>

\* SeparableConvBn.__init__(in_channels, out_channels, depth, kernel=...,
\* dilation=...): dep_conv is built with kernel=(3,3) and pad=dilation
SeparableConvBn_init(out_channels, kernel, dilation) ==
    /\ cl_state = "none"
    /\ cl_kind' = "SeparableConvBn"
    /\ cl_kernel' = kernel
    /\ cl_dilation' = dilation
    /\ cl_state' = "ok"
    /\ cl_conv' = [kernel |-> DepthwiseKernel, pad |-> dilation,
                   group |-> out_channels]
    /\ UNCHANGED <<coreVars, divVars, cellVars, blockVars, graphVars,
                   mcallVars>>

LayerIdle ==
    /\ cl_state = "none"
    /\ cl_kind = ""
    /\ cl_kernel = <<>>
    /\ cl_dilation = <<>>
    /\ cl_conv = NoConv

\* the arguments callers construct layers with
Kernels == (1..MaxKernel) \X (1..MaxKernel)
Dilations == (1..MaxDilation) \X (1..MaxDilation)
LayerChannels == {4}
LayerGroups == {1, 2}
ExpandRatios == {3}

ConstructConvLayer ==
    \E cin \in LayerChannels, k \in Kernels, d \in Dilations,
       g \in LayerGroups : ConvLayer_init(cin, k, d, g)

ConstructMBConvLayer ==
    \E cin \in LayerChannels, k \in Kernels, e \in ExpandRatios,
       g \in LayerGroups \cup {0} : MBConvLayer_init(cin, k, e, g)

ConstructSeparableConvBn ==
    \E cout \in LayerChannels, k \in Kernels, d \in Dilations :
        SeparableConvBn_init(cout, k, d)

(***************************************************************************)
(* ZophCell                                                                *)
(***************************************************************************)
\* spatial extents of a parent are 1..MaxExtent on each axis
MaxExtent == 4
\* most blocks in one cell
MaxModules == 2

\* a module of the graph: its name is the format string's text and number;
\* its parents are node numbers of the cell, or -i for the cell's parent i;
\* kernel and stride are pairs of rationals
Node(name, kind, parents, kernel, stride) ==
    [name |-> name, kind |-> kind, parents |-> parents, kernel |-> kernel,
     stride |-> stride]
NoKernel == <<>>

\* np.min(np.array(shapes), axis=0)[2:]
MinExtent(shapes) ==
    [a \in 1..2 |->
        CHOOSE m \in {shapes[i][a + 2] : i \in DOMAIN shapes} :
            \A i \in DOMAIN shapes : m <= shapes[i][a + 2]]

\* self._shape_adaptation: parent -> np.array(si[2:]) / min_shape[2:], for
\* the parents whose spatial extent is not the minimum
shape_adaptation_keysMutant(shapes) == DOMAIN shapes
shape_adaptation_keys(shapes) ==
    {i \in DOMAIN shapes :
        <<shapes[i][3], shapes[i][4]>> # MinExtent(shapes)}
shape_adaptation(shapes, i) ==
    [a \in 1..2 |-> <<shapes[i][a + 2], MinExtent(shapes)[a]>>]

\* the kernel and stride of the reducing pools
ReduceKernelMutant == <<(<<3, 1>>), <<3, 1>>>>
ReduceKernel == <<(<<2, 1>>), <<2, 1>>>>

\* the j-th smallest element of a set of numbers
NthSmallest(S, j) == CHOOSE x \in S : Cardinality({y \in S : y <= x}) = j

\* the modules ZophCell.__init__ appends before the blocks, and
\* projected_inputs after each stage
CellStem(shapes, reducing) ==
    LET n == Len(shapes)
        adapt == shape_adaptation_keys(shapes)
        na == Cardinality(adapt)
        proj == [j \in 1..(3 * n) |->
                    LET i == (j + 2) \div 3
                    IN  CASE j % 3 = 1 ->
                                Node(<<"input_conv", i - 1>>, "Conv", <<-i>>,
                                     <<(<<1, 1>>), <<1, 1>>>>, NoKernel)
                          [] j % 3 = 2 ->
                                Node(<<"input_bn", i - 1>>, "BatchNormalization",
                                     <<j - 1>>, NoKernel, NoKernel)
                          [] OTHER ->
                                Node(<<"input_conv/relu", i - 1>>, "ReLU",
                                     <<j - 1>>, NoKernel, NoKernel)]
        projected == [i \in 1..n |-> 3 * i]
        pools == [j \in 1..na |->
                    LET i == NthSmallest(adapt, j)
                    IN  Node(<<"shape_adapt_pool", i - 1>>, "MaxPool",
                             <<projected[i]>>,
                             shape_adaptation(shapes, i),
                             shape_adaptation(shapes, i))]
        adapted == [i \in 1..n |->
                    IF i \in adapt
                    THEN 3 * n + Cardinality({j \in adapt : j <= i})
                    ELSE projected[i]]
        reduce == IF reducing
                  THEN [i \in 1..n |-> Node(<<"reduce_pool", i - 1>>, "MaxPool",
                                            <<adapted[i]>>,
                                            ReduceKernel, ReduceKernel)]
                  ELSE <<>>
        reduced == [i \in 1..n |->
                    IF reducing THEN 3 * n + na + i ELSE adapted[i]]
    IN  [nodes |-> proj \o pools \o reduce, adapted |-> adapted,
         inputs |-> reduced]

\* the blocks and the output concatenation: block i (0-based) is built on
\* cell_modules[:i+2] and appended to cell_modules
RECURSIVE CellBlocks(_, _, _, _)
CellBlocks(nodes, cell_modules, i, n_modules) ==
    IF i = n_modules
    THEN Append(nodes, Node(<<"output_concat", 0>>, "Merging", cell_modules,
                            NoKernel, NoKernel))
    ELSE LET ps == SubSeq(cell_modules, 1,
                          IF i + 2 <= Len(cell_modules) THEN i + 2
                          ELSE Len(cell_modules))
         IN  CellBlocks(Append(nodes, Node(<<"zoph_block", i>>, "ZophBlock", ps,
                                           NoKernel, NoKernel)),
                        Append(cell_modules, Len(nodes) + 1), i + 1, n_modules)

\* F.max_pooling's output extent on one axis for an integer kernel k and
\* stride s, no padding; 0 stands for a pooling that fails
PoolExtent(e, k, s) == IF e = 0 \/ e < k THEN 0 ELSE (e - k) \div s + 1

\* the outcomes of a pooling whose kernel is k[1] / k[2]: a kernel that is
\* not an integer is either refused or truncated by the tensor library
PoolOutcomes(e, k, s) ==
    IF k[1] % k[2] = 0 /\ s[1] % s[2] = 0
    THEN {PoolExtent(e, k[1] \div k[2], s[1] \div s[2])}
    ELSE {0, PoolExtent(e, k[1] \div k[2], s[1] \div s[2])}

\* the spatial extent of a node's output on axis a; `refuse` is whether the
\* tensor library refuses a kernel that is not an integer
RECURSIVE NodeExtent(_, _, _, _, _)
NodeExtent(shapes, nodes, ref, a, refuse) ==
    IF ref < 0 THEN shapes[-ref][a + 2]
    ELSE LET nd == nodes[ref]
             e == NodeExtent(shapes, nodes, nd.parents[1], a, refuse)
         IN  IF nd.kind = "MaxPool"
             THEN IF refuse /\ 0 \in PoolOutcomes(e, nd.kernel[a], nd.stride[a])
                  THEN 0
                  ELSE PoolExtent(e, nd.kernel[a][1] \div nd.kernel[a][2],
                                  nd.stride[a][1] \div nd.stride[a][2])
             ELSE e

\* the concatenation of a block's inputs needs one spatial extent
InputsAgree(shapes, nodes, inputs, refuse) ==
    \A a \in 1..2 :
        /\ \A i \in DOMAIN inputs :
                NodeExtent(shapes, nodes, inputs[i], a, refuse) > 0
        /\ \A i, j \in DOMAIN inputs :
                NodeExtent(shapes, nodes, inputs[i], a, refuse)
                    = NodeExtent(shapes, nodes, inputs[j], a, refuse)

\* ZophCell.__init__(parents, candidates, channels, n_modules, reducing)
ZophCell_init(shapes, n_modules, reducing, refuse) ==
    /\ zc_state = "none"
    /\ zc_parents' = shapes
    /\ zc_reducing' = reducing
    /\ zc_n_modules' = n_modules
    /\ LET stem == CellStem(shapes, reducing)
       IN  IF InputsAgree(shapes, stem.nodes, stem.inputs, refuse)
           THEN /\ zc_state' = "ok"
                /\ zc_nodes' = CellBlocks(stem.nodes, stem.inputs, 0, n_modules)
                /\ zc_inputs' = stem.inputs
           ELSE /\ zc_state' = "raised"
                /\ zc_nodes' = stem.nodes
                /\ zc_inputs' = stem.inputs
    /\ UNCHANGED <<coreVars, divVars, layerVars, blockVars, graphVars,
                   mcallVars>>

CellIdle ==
    /\ zc_state = "none"
    /\ zc_parents = <<>>
    /\ zc_reducing = FALSE
    /\ zc_n_modules = 0
    /\ zc_nodes = <<>>
    /\ zc_inputs = <<>>

\* the parents a cell is built on: one to three, of 16 channels
ParentCounts == {1, 2, 3}
ParentShapes == {<<1, 16, h, w>> : h \in 1..MaxExtent, w \in 1..MaxExtent}
\* cells on three parents are built on square feature maps
CellParents(n) ==
    IF n <= 2 THEN [1..n -> ParentShapes]
    ELSE [1..n -> {<<1, 16, e, e>> : e \in 1..MaxExtent}]

ConstructCell ==
    \E n \in ParentCounts, n_modules \in 1..MaxModules,
       reducing \in BOOLEAN, refuse \in BOOLEAN :
        \E shapes \in CellParents(n) :
            ZophCell_init(shapes, n_modules, reducing, refuse)

(***************************************************************************)
(* ZophBlock                                                               *)
(***************************************************************************)
\* most candidates in one block
MaxCandidates == 3

\* the modules ZophBlock.__init__ appends for n parents: the input
\* concatenation, its projection, batch normalization and activation, one
\* module per candidate, and the Join on self[4:]; parents are positions
\* in the block, 1-based, or -i for the block's parent i; a name is the
\* text after the block's own name, with the candidate's number
BlockNodes(n, candidates) ==
    LET nc == Len(candidates)
        front ==
            <<Node(<<"input_con">>, "Merging", [i \in 1..n |-> -i],
                   NoKernel, NoKernel),
              Node(<<"input_conv">>, "Conv", <<1>>, <<(<<1, 1>>), <<1, 1>>>>,
                   NoKernel),
              Node(<<"input_conv_bn">>, "BatchNormalization", <<2>>,
                   NoKernel, NoKernel),
              Node(<<"input_conv/relu">>, "ReLU", <<3>>, NoKernel, NoKernel)>>
        cands == [i \in 1..nc |->
                    Node(<<"candidate", i - 1>>, candidates[i], <<2>>,
                         NoKernel, NoKernel)]
        body == front \o cands
    IN  Append(body,
               Node(<<"join">>, "Join", [j \in 1..(Len(body) - 4) |-> j + 4],
                    NoKernel, NoKernel))

\* ZophBlock.__init__(parents, candidates, channels, join_parameters):
\* join_parameters is None (given = FALSE) or a vector of length len
ZophBlock_init(n, candidates, given, len) ==
    /\ zb_state = "none"
    /\ zb_state' = "ok"
    /\ zb_parents' = n
    /\ zb_candidates' = candidates
    /\ zb_join_parameters' = IF given THEN len ELSE Len(candidates)
    /\ zb_nodes' = BlockNodes(n, candidates)
    /\ UNCHANGED <<coreVars, divVars, layerVars, cellVars, graphVars,
                   mcallVars>>

BlockIdle ==
    /\ zb_state = "none"
    /\ zb_parents = 0
    /\ zb_candidates = <<>>
    /\ zb_join_parameters = 0
    /\ zb_nodes = <<>>

\* candidate classes a block is built from
CandidateKinds == {"SepConv3x3", "MaxPool3x3", "Zero"}

ConstructBlock ==
    \E n \in 1..3, nc \in 1..MaxCandidates, given \in BOOLEAN,
       len \in 1..MaxCandidates :
        \E candidates \in [1..nc -> CandidateKinds] :
            ZophBlock_init(n, candidates, given, len)

(***************************************************************************)
(* SearchNet and TrainNet                                                  *)
(***************************************************************************)
GraphIdle ==
    /\ sn_state = "none"
    /\ sn_kind = ""
    /\ sn_args = <<>>
    /\ sn_attrs = <<>>
    /\ sn_nodes = <<>>
    /\ sn_wiring = <<>>

\* most cells in one network
MaxCells == 3

ZOPH_CANDIDATES ==
    <<"SepConv3x3", "SepConv5x5", "DilSepConv3x3", "DilSepConv5x5",
      "MaxPool3x3", "AveragePool3x3", "Identity", "Zero">>
\* the default of the cell_channels argument
DefaultCellChannels == <<128, 256, 512>>

\* a module of the network: parents are positions in the network, 1-based,
\* or -1 for self._input; cfg is what a cell is configured with
SNode(name, kind, parents, cfg) ==
    [name |-> name, kind |-> kind, parents |-> parents, cfg |-> cfg]

\* 1. the stem convolutions: six modules chained on the input
StemNodes ==
    <<SNode(<<"stem_conv_1">>, "Conv", <<-1>>, <<>>),
      SNode(<<"stem_bn">>, "BatchNormalization", <<1>>, <<>>),
      SNode(<<"stem_relu">>, "ReLU", <<2>>, <<>>),
      SNode(<<"stem_conv_2">>, "Conv", <<3>>, <<>>),
      SNode(<<"stem2_bn">>, "BatchNormalization", <<4>>, <<>>),
      SNode(<<"stem2_relu">>, "ReLU", <<5>>, <<>>)>>

\* 3. the output convolution, pooling and reshape, chained on self[-1]
HeadNodes(n) ==
    <<SNode(<<"output_conv_1">>, "Conv", <<n>>, <<>>),
      SNode(<<"output_bn">>, "BatchNormalization", <<n + 1>>, <<>>),
      SNode(<<"output_relu">>, "ReLU", <<n + 2>>, <<>>),
      SNode(<<"global_average_pool">>, "GlobalAvgPool", <<n + 3>>, <<>>),
      SNode(<<"output_reshape">>, "Collapse", <<n + 4>>, <<>>)>>

\* how many cells are built: cells 0 and 1, then one per element of the
\* zip of the argument lists from position 2 on
NetCells(a) ==
    LET lens == {Len(a.cell_depth), Len(a.cell_channels), Len(a.reducing)}
    IN  CHOOSE m \in lens : \A l \in lens : m <= l

\* self[i] on a graph holding n modules: the module list is indexed as a
\* list, from 0, and holds the appended modules only
GraphIndex(n, i) == PyIndex(n, i)

\* the positions the parents of cell i resolve to in a network holding n
\* modules: [self[3], self[6]], [self[6], self[7]], then self[-2:];
\* 0 = IndexError
CellParentRefs(n, i) ==
    IF i = 0 THEN <<GraphIndex(n, 3), GraphIndex(n, 6)>>
    ELSE IF i = 1 THEN <<GraphIndex(n, 6), GraphIndex(n, 7)>>
    ELSE <<n - 1, n>>

\* the cells are appended one by one, then the head
RECURSIVE SearchNetCells(_, _, _, _)
SearchNetCells(nodes, wiring, i, a) ==
    IF i >= NetCells(a)
    THEN [state |-> "ok", nodes |-> nodes \o HeadNodes(Len(nodes)),
          wiring |-> wiring]
    ELSE LET refs == CellParentRefs(Len(nodes), i)
         IN  IF 0 \in Range(refs)
             THEN [state |-> "raised", nodes |-> nodes,
                   wiring |-> Append(wiring, refs)]
             ELSE SearchNetCells(
                    Append(nodes,
                           SNode(<<"cell", i>>, "ZophCell", refs,
                                 <<a.cell_depth[i + 1], a.cell_channels[i + 1],
                                   a.reducing[i + 1], a.candidates>>)),
                    Append(wiring, refs), i + 1, a)

\* SearchNet.__init__: the attributes are stored first, then the modules
\* are appended
SearchNet_construct(a, mode) ==
    LET r == SearchNetCells(StemNodes, <<>>, 0, a)
    IN  [state |-> r.state,
         attrs |-> [cell_depth |-> a.cell_depth,
                    cell_channels |-> a.cell_channels,
                    reducing |-> a.reducing,
                    candidates |-> a.candidates,
                    mode |-> mode],
         nodes |-> r.nodes,
         wiring |-> r.wiring]

\* SearchNet(cells, cell_depth, cell_channels, reducing, candidates, mode)
SearchNet_init(a, mode) ==
    /\ sn_state = "none"
    /\ sn_kind' = "SearchNet"
    /\ sn_args' = a
    /\ LET r == SearchNet_construct(a, mode)
       IN  /\ sn_state' = r.state
           /\ sn_attrs' = r.attrs
           /\ sn_nodes' = r.nodes
           /\ sn_wiring' = r.wiring
    /\ UNCHANGED <<coreVars, divVars, layerVars, cellVars, blockVars,
                   mcallVars>>

\* what TrainNet.__init__ hands to SearchNet.__init__: cell_channels is not
\* passed on, and candidates is passed as ZOPH_CANDIDATES
TrainNetForwards(a) ==
    [a EXCEPT !.cell_channels = DefaultCellChannels,
              !.candidates = ZOPH_CANDIDATES]

\* TrainNet(cells, cell_depth, cell_channels, reducing, candidates)
TrainNet_init(a) ==
    /\ sn_state = "none"
    /\ sn_kind' = "TrainNet"
    /\ sn_args' = a
    /\ LET r == SearchNet_construct(TrainNetForwards(a), "max")
       IN  /\ sn_state' = r.state
           /\ sn_attrs' = r.attrs
           /\ sn_nodes' = r.nodes
           /\ sn_wiring' = r.wiring
    /\ UNCHANGED <<coreVars, divVars, layerVars, cellVars, blockVars,
                   mcallVars>>

\* the arguments a network is built with: k cells of 1..MaxModules blocks,
\* the default candidates or a single one, the default widths or narrow ones
NetCandidates == {ZOPH_CANDIDATES, <<"SepConv3x3">>}
ChannelBases == {128, 16}
NetArgs ==
    UNION {[cell_depth : [1..k -> 1..MaxModules],
            cell_channels : {[i \in 1..k |-> b * (2 ^ (i - 1))] :
                                b \in ChannelBases},
            reducing : [1..k -> BOOLEAN],
            candidates : NetCandidates] : k \in 2..MaxCells}

ConstructSearchNet ==
    \E a \in NetArgs, mode \in {"full", "sample", "max"} :
        SearchNet_init(a, mode)

ConstructTrainNet == \E a \in NetArgs : TrainNet_init(a)

ExtIdle ==
    /\ DivIdle /\ LayerIdle /\ CellIdle /\ BlockIdle /\ GraphIdle
    /\ MergingCallIdle

\* ConvLayer.__init__ clamps groups for its in_channels
ClampGroups ==
    \E n1 \in 1..MaxChannels, v1 \in (-MaxGroups)..MaxGroups :
        min_divisible_value(n1, v1)

(***************************************************************************)
(* The MixedOp / Merging specification.                                    *)
(***************************************************************************)
MixedInit ==
    /\ mo_state = "none"
    /\ mo_arg_mode = ""
    /\ mo_attrs = {}
    /\ mo_active = 0
    /\ mo_mode = ""
    /\ mo_ops = [kernels |-> <<>>, cin |-> 0, cout |-> 0]
    /\ mo_alpha = <<>>
    /\ mo_alpha_g = NoGrad
    /\ mo_need_grad = <<>>
    /\ mo_warned = FALSE
    /\ call_status = "none"
    /\ call_in = NoTensor
    /\ call_active = 0
    /\ invoked = <<>>
    /\ out = NoTensor

MergingInit ==
    /\ mg_state = "none"
    /\ mg_arg_mode = ""
    /\ mg_attrs = {}
    /\ mg_mode = ""
    /\ mg_axis = 0

InitMixedOp == MixedInit /\ MergingInit /\ GenoIdle /\ NetIdle /\ ExtIdle

Construct ==
    \E n \in 1..MaxOps, cin \in InChannels, cout \in OutChannels,
       m \in ModeArgs :
        \E a \in [1..n -> 0..MaxAlpha] : MixedOp_init(n, cin, cout, m, a)

Forward == \E x \in Inputs(mo_cin) : MixedOp_call(x)

ConstructMerging == \E m \in MergingModeArgs : Merging_init(m, 1)

\* the life of one MixedOp: construction, re-selection, gradient injection
\* and forward calls in any order
NextMixedOp ==
    \/ Construct
    \/ Forward
    \/ MixedOp_update_active_idx
    \/ MixedOp_update_alpha_grad

SpecMixedOp == InitMixedOp /\ [][NextMixedOp]_vars

\* construction alone, of a MixedOp and of a Merging
NextConstruct ==
    \/ Construct
    \/ ConstructMerging

SpecConstruct == InitMixedOp /\ [][NextConstruct]_vars

\* the life of one Merging: construction, then forward calls
NextMerging ==
    \/ ConstructMerging
    \/ CallMerging

SpecMerging == InitMixedOp /\ [][NextMerging]_vars

(***************************************************************************)
(* The genotype decoder's specification.                                   *)
(***************************************************************************)
InitGenotype == MixedInit /\ MergingInit /\ GenoInit /\ NetIdle /\ ExtIdle

NextGenotype == Decode

SpecGenotype == InitGenotype /\ [][NextGenotype]_vars

(***************************************************************************)
(* The searcher's specification.                                           *)
(***************************************************************************)
InitSearcher == MixedInit /\ MergingInit /\ GenoIdle /\ NetInit /\ ExtIdle

NextSearcher ==
    \/ callback_on_start
    \/ TrainStep
    \/ ValidStep

SpecSearcher == InitSearcher /\ [][NextSearcher]_vars

(***************************************************************************)
(* The group-count clamp's specification.                                  *)
(***************************************************************************)
CoreIdle == MixedInit /\ MergingInit /\ GenoIdle /\ NetIdle

InitMinDiv == CoreIdle /\ ExtIdle

NextMinDiv ==
    \/ ClampGroups
    \/ min_divisible_value_loop

SpecMinDiv == InitMinDiv /\ [][NextMinDiv]_vars

(***************************************************************************)
(* The layer constructors' specification.                                  *)
(***************************************************************************)
InitLayers == CoreIdle /\ ExtIdle

NextLayers ==
    \/ ConstructConvLayer
    \/ ConstructMBConvLayer
    \/ ConstructSeparableConvBn

SpecLayers == InitLayers /\ [][NextLayers]_vars

(***************************************************************************)
(* The cell constructor's specification.                                   *)
(***************************************************************************)
InitCell == CoreIdle /\ ExtIdle

NextCell == ConstructCell

SpecCell == InitCell /\ [][NextCell]_vars

(***************************************************************************)
(* The block constructor's specification.                                  *)
(***************************************************************************)
InitBlock == CoreIdle /\ ExtIdle

SpecBlock == InitBlock /\ [][ConstructBlock]_vars

(***************************************************************************)
(* The network constructors' specification.                                *)
(***************************************************************************)
InitNet == CoreIdle /\ ExtIdle

NextNet ==
    \/ ConstructSearchNet
    \/ ConstructTrainNet

SpecNet == InitNet /\ [][NextNet]_vars

(***************************************************************************)
(* Claims about MixedOp and Merging.                                       *)
(***************************************************************************)
\* the last forward call was made in a single-path mode
SinglePathCall == call_status # "none" /\ mo_mode \in {"sample", "max"}

\* C1: in 'sample' or 'max' mode with active index a in 0..N-1, a forward
\* call invokes exactly one operator, the one at index a, on the input, and
\* returns that operator's output unchanged.
C1_OnlyActiveOpRuns ==
    (SinglePathCall /\ call_active \in 0..(mo_n - 1)) =>
        /\ call_status = "returned"
        /\ invoked = <<(<<call_active + 1, call_in>>)>>
        /\ out = Conv(Kernel(call_active + 1), mo_cin, mo_cout, call_in)

\* a forward call of a three-operator MixedOp in 'sample' mode ran the middle
\* operator
C1_Witness ==
    /\ SinglePathCall /\ mo_mode = "sample"
    /\ mo_n = 3 /\ call_active = 1
    /\ call_status = "returned"
    /\ invoked = <<(<<2, call_in>>)>>

\* C2: once _update_active_idx has run (the active index is no longer -1),
\* exactly one operator has need_grad true, the one at the active index, and
\* every other operator has need_grad false.
C2_OneTrainableOp ==
    (mo_state = "ok" /\ mo_active # -1) =>
        /\ mo_active \in 0..(mo_n - 1)
        /\ \A i \in 1..mo_n : mo_need_grad[i] <=> (i - 1 = mo_active)
        /\ Cardinality({i \in 1..mo_n : mo_need_grad[i]}) = 1

\* re-selection picked the middle of three operators and froze the others
C2_Witness ==
    /\ mo_state = "ok" /\ mo_n = 3 /\ mo_active = 1
    /\ mo_need_grad = <<FALSE, TRUE, FALSE>>

\* C3: a forward call in 'sample' or 'max' mode while the active index is
\* still -1 fails: it runs no operator and returns no output.
C3_UninitializedCallFails ==
    (SinglePathCall /\ call_active = -1) =>
        /\ call_status = "raised"
        /\ invoked = <<>>
        /\ ~out.ok

\* C4: a MixedOp built with a mode outside {'max', 'sample', 'full'}, or a
\* Merging built with a mode outside {'concat', 'add'}, raises before it
\* stores any attribute; an instance that exists has a supported mode, the
\* one it was built with.
C4_UnsupportedModeRejected ==
    /\ (mo_state # "none" /\ mo_arg_mode \notin {"max", "sample", "full"}) =>
            (mo_state = "raised" /\ mo_attrs = {})
    /\ (mo_state = "ok") =>
            (mo_mode = mo_arg_mode /\ mo_mode \in {"max", "sample", "full"})
    /\ (mg_state # "none" /\ mg_arg_mode \notin {"concat", "add"}) =>
            (mg_state = "raised" /\ mg_attrs = {})
    /\ (mg_state = "ok") =>
            (mg_mode = mg_arg_mode /\ mg_mode \in {"concat", "add"})

\* both constructors were called with an unsupported mode and raised
C4_Witness ==
    /\ mo_state = "raised" /\ mo_arg_mode = "mean"
    /\ mg_state = "raised" /\ mg_arg_mode = "mul"

\* the softmax-weighted sum of the operators' outputs, computed directly
WeightedSum(x) ==
    LET sm == softmax(mo_alpha)
    IN  <<SeqSum([i \in 1..mo_n |-> sm.num[i] * Kernel(i) * x.val[1]]),
          sm.den * x.val[2]>>

\* C5: in 'full' mode a forward call runs each of the N operators exactly
\* once, in order, on the same input, and returns their sum weighted by the
\* softmax of the architecture parameters, whose weights are non-negative
\* and sum to one; the call returns whatever the active index is.
C5_FullIsSoftmaxMixture ==
    (call_status # "none" /\ mo_mode = "full") =>
        /\ call_status = "returned"
        /\ invoked = [i \in 1..mo_n |-> <<i, call_in>>]
        /\ LET sm == softmax(mo_alpha)
           IN  /\ \A i \in 1..mo_n : sm.num[i] >= 0
               /\ sm.den > 0
               /\ SeqSum(sm.num) = sm.den
        /\ RatEq(out.val, WeightedSum(call_in))

\* a 'full' forward call over three operators with unequal weights, one of
\* them underflowed to zero, made while the active index was still -1
C5_Witness ==
    /\ call_status = "returned" /\ mo_mode = "full"
    /\ mo_n = 3 /\ call_active = -1
    /\ mo_alpha = <<0, 2, 1>>
    /\ softmax(mo_alpha).num[1] = 0

\* C6: for each mode and operators mapping (B, Cin, H, W) to (B, Cout, H, W),
\* a forward call made after re-selection (in 'full' mode: any forward call)
\* completes and its output has shape (B, Cout, H, W), whether or not the
\* gradient was injected in between.
C6_OutputShape ==
    (/\ call_status # "none"
     /\ (mo_mode = "full" \/ call_active >= 0)) =>
        /\ call_status = "returned"
        /\ out.ok
        /\ out.shape = <<call_in.shape[1], mo_cout, call_in.shape[3],
                         call_in.shape[4]>>

\* the test's sequence in 'max' mode over three operators: re-selected,
\* gradient injected, forward returned
C6_Witness ==
    /\ mo_mode = "max" /\ mo_n = 3
    /\ mo_active >= 0 /\ mo_alpha_g.set
    /\ call_status = "returned" /\ call_active = mo_active
    /\ out.shape = <<8, 8, 32, 32>>

\* C17: the active index is -1 when the MixedOp is constructed; only
\* _update_active_idx changes it (forward calls and _update_alpha_grad leave
\* it as it is), every re-selection puts it in 0..N-1, and once there it
\* never returns to -1.
C17_ActiveIndexLifecycle ==
    [][/\ (mo_state = "none" /\ mo_state' = "ok") => mo_active' = -1
       /\ mo_state = "ok" =>
            /\ mo_active' # mo_active => MixedOp_update_active_idx
            /\ (mo_active' # mo_active \/ mo_need_grad' # mo_need_grad) =>
                    mo_active' \in 0..(mo_n - 1)
            /\ mo_active \in 0..(mo_n - 1) => mo_active' \in 0..(mo_n - 1)]_vars

\* the last of three operators is selected, and both a forward call and a
\* gradient injection have run with it
C17_Witness ==
    /\ mo_state = "ok" /\ mo_n = 3 /\ mo_active = 2
    /\ call_status = "returned" /\ call_active = 2
    /\ mo_alpha_g.set /\ mo_alpha_g.num[3] > 0

\* C18: in 'max' mode a re-selection leaves the active index at an index
\* whose architecture parameter is maximal among the N, and a further
\* re-selection with the same parameters yields the same index; in 'sample'
\* mode the selected index has a softmax probability that is not zero.
C18_SelectionFollowsAlpha ==
    /\ [](/\ (mo_mode = "max" /\ mo_active >= 0) =>
                \A i \in 1..mo_n : mo_alpha[i] <= mo_alpha[mo_active + 1]
          /\ (mo_mode = "sample" /\ mo_active >= 0) =>
                /\ softmax(mo_alpha).num[mo_active + 1] > 0
                /\ softmax(mo_alpha).den > 0)
    /\ [][(mo_mode = "max" /\ mo_active >= 0 /\ mo_alpha' = mo_alpha)
              => mo_active' = mo_active]_vars

\* 'max' mode over the parameters (0, 2, 1): the middle operator is selected
C18_Witness ==
    /\ mo_state = "ok" /\ mo_mode = "max"
    /\ mo_alpha = <<0, 2, 1>> /\ mo_active = 1

\* C19: a call of _update_alpha_grad with active index a in 0..N-1 leaves in
\* alpha's gradient buffer -(probs - one_hot(a)) for probs = softmax(alpha):
\* 1 - probs[a] >= 0 at a, -probs[i] <= 0 elsewhere, summing to zero; and a
\* step that changes the buffer changes neither alpha's values nor the
\* active index nor the need_grad flags.
C19_SurrogateGradient ==
    [][mo_alpha_g' # mo_alpha_g =>
        /\ mo_alpha' = mo_alpha
        /\ mo_active' = mo_active
        /\ mo_need_grad' = mo_need_grad
        /\ mo_active \in 0..(mo_n - 1) =>
            LET p == softmax(mo_alpha)
                g == mo_alpha_g'
                a == mo_active + 1
            IN  /\ g.set /\ g.den > 0
                /\ DOMAIN g.num = 1..mo_n
                /\ RatEq(<<g.num[a], g.den>>, <<p.den - p.num[a], p.den>>)
                /\ g.num[a] >= 0
                /\ \A i \in (1..mo_n) \ {a} :
                    /\ RatEq(<<g.num[i], g.den>>, <<-p.num[i], p.den>>)
                    /\ g.num[i] <= 0
                /\ SeqSum(g.num) = 0]_vars

\* the gradient injected for parameters (0, 2, 1) with the middle operator
\* active: probs = (0, 2/3, 1/3), gradient (0, 1/3, -1/3)
C19_Witness ==
    /\ mo_state = "ok" /\ mo_alpha = <<0, 2, 1>> /\ mo_active = 1
    /\ mo_alpha_g = [set |-> TRUE, num |-> <<0, 1, -1>>, den |-> 3]

(***************************************************************************)
(* Claims about genotype2subnetlist.                                       *)
(***************************************************************************)
\* the grouping rule in words: non-skip picks count up; the counter is
\* flushed (a) at a skip when it exceeds 1, (b) when it reaches 4, (c) at the
\* end of the sequence. `reset` is whether a skip that does not flush drops
\* the counter, which the words leave open.
RECURSIVE RuleScan(_, _, _, _, _)
RuleScan(subnets, i, c, depth_list, reset) ==
    IF i > Len(subnets)
    THEN IF c > 0 THEN Append(depth_list, c) ELSE depth_list
    ELSE IF subnets[i] = "skip_connect"
         THEN IF c > 1
              THEN RuleScan(subnets, i + 1, 0, Append(depth_list, c), reset)
              ELSE RuleScan(subnets, i + 1, IF reset THEN 0 ELSE c,
                            depth_list, reset)
    ELSE IF c + 1 = 4
         THEN RuleScan(subnets, i + 1, 0, Append(depth_list, 4), reset)
    ELSE RuleScan(subnets, i + 1, c + 1, depth_list, reset)

RuleDepths(subnets) ==
    {RuleScan(subnets, 1, 0, <<>>, reset) : reset \in BOOLEAN}

\* the spec's literal example: 3x3 three times, skip, 5x5 four times, skip
ExampleSubnets ==
    <<"XP3 3x3", "XP3 3x3", "XP3 3x3", "skip_connect",
      "XP3 5x5", "XP3 5x5", "XP3 5x5", "XP3 5x5", "skip_connect">>

\* C7: for every genotype the returned depth list is the one the grouping
\* rule produces, and the example decodes to [3, 4].
C7_DepthListFollowsRule ==
    /\ DepthScan(ExampleSubnets, 1, 0, <<>>) = <<3, 4>>
    /\ g_status = "returned" => g_ret.depth_list \in RuleDepths(g_subnets)

\* C8: every value of a returned depth list is greater than 1.
C8_ReturnedDepthsExceedOne ==
    g_status = "returned" =>
        \A i \in DOMAIN g_ret.depth_list : g_ret.depth_list[i] > 1

\* C30: a forward call of a Merging returns one tensor: on two or more
\* inputs 'concat' returns a tensor whose size on the merge axis is the sum
\* of the inputs' sizes and 'add' their element-wise sum, of the inputs'
\* shape; on one input both modes return that input, not a collection
\* holding it.
C30_MergingReturnsOneTensor ==
    mc_status = "returned" =>
        /\ ~mc_out.tuple
        /\ (mg_mode = "concat" /\ Len(mc_in) >= 2) =>
                Len(mc_out.value) = SeqSum([i \in DOMAIN mc_in |-> Len(mc_in[i])])
        /\ (mg_mode = "add" /\ Len(mc_in) >= 2) =>
                /\ Len(mc_out.value) = Len(mc_in[1])
                /\ \A j \in DOMAIN mc_out.value :
                        mc_out.value[j] = SeqSum([i \in DOMAIN mc_in |-> mc_in[i][j]])
        /\ Len(mc_in) = 1 => mc_out.value = mc_in[1]

\* C26: the decoder leaves the caller's candidate list as it was: after
\* any number of calls with one list object the list has the length and the
\* contents it had before the first call.
C26_CandidateListUnchanged == op_candidates = op_candidates0

\* the picks of the last decode that are not skip_connect
NonSkipPicks == {i \in DOMAIN g_subnets : g_subnets[i] # "skip_connect"}

\* C27: for every genotype decoded, the returned depths sum to the number
\* of picks that are not skip_connect, and each depth is between 1 and 4.
C27_DepthsCountEveryPick ==
    g_status = "returned" =>
        /\ SeqSum(g_ret.depth_list) = Cardinality(NonSkipPicks)
        /\ \A i \in DOMAIN g_ret.depth_list : g_ret.depth_list[i] \in 1..4

(***************************************************************************)
(* Claims about the parameter partition and the searcher.                  *)
(***************************************************************************)
\* C9: for each grad_only, get_net_parameters and get_arch_parameters are
\* disjoint and together are exactly get_parameters.
C9_ParameterPartition ==
    \A grad_only \in BOOLEAN :
        /\ get_net_parameters(grad_only) \cap get_arch_parameters(grad_only) = {}
        /\ get_net_parameters(grad_only) \cup get_arch_parameters(grad_only)
                = get_parameters(grad_only)

\* a running searcher over a net where both sides of the partition are
\* non-empty and grad_only leaves a parameter of each side out
C9_Witness ==
    /\ s_pc = "started"
    /\ get_net_parameters(TRUE) = {KeyStemW}
    /\ get_arch_parameters(TRUE) = {KeyJoin1}
    /\ get_net_parameters(FALSE) = {KeyStemW, KeyBnMean}
    /\ get_arch_parameters(FALSE) = {KeyJoin0, KeyJoin1}

\* C10: a train step leaves the value of every architecture parameter as it
\* was before the step, a valid step that of every network parameter.
C10_StepIsolation ==
    /\ last_step = "train" =>
        \A k \in {KeyJoin0, KeyJoin1} : params[k].d = snapshot[k]
    /\ last_step = "valid" =>
        \A k \in {KeyStemW, KeyBnMean} : params[k].d = snapshot[k]

\* a train step moved a network weight, then a valid step moved an
\* architecture parameter and left the weight where the train step put it
C10_Witness ==
    /\ last_step = "valid" /\ steps = 2
    /\ params[KeyJoin0].d # snapshot[KeyJoin0]
    /\ params[KeyStemW].d # 0
    /\ params[KeyStemW].d = snapshot[KeyStemW]

\* the gradient the last step's optimizer update applied to parameter k:
\* the content of its buffer if the optimizer holds it, nothing otherwise
AppliedGradient(k) ==
    IF k \in optimizer[last_step] THEN params[k].g ELSE ZeroGrad

\* C11: at every optimizer update the gradient applied to an architecture
\* parameter holds nothing of the training loss, the gradient applied to a
\* network weight nothing of the validation loss, and what is applied is
\* the sum over the micro-batches of the current step alone.
C11_OwnPhaseGradientOnly ==
    last_step # "none" =>
        \A k \in DOMAIN params :
            /\ StrIn(<<"j", "o", "i", "n">>, k) => AppliedGradient(k).train = 0
            /\ ~StrIn(<<"j", "o", "i", "n">>, k) => AppliedGradient(k).valid = 0
            /\ k \in optimizer[last_step] =>
                    AppliedGradient(k)[last_step] = SeqSum(s_batches)
            /\ snapshot[k] - params[k].d =
                    AppliedGradient(k).train + AppliedGradient(k).valid

\* a valid step of two micro-batches after a train step: the architecture
\* parameter was moved by the validation gradients alone, while a network
\* weight still holds both losses' gradients in its buffer
C11_Witness ==
    /\ last_step = "valid" /\ steps = 2 /\ Len(s_batches) = 2
    /\ KeyJoin0 \in optimizer.valid
    /\ params[KeyJoin0].g = [train |-> 0, valid |-> SeqSum(s_batches)]
    /\ params[KeyStemW].g.train > 0 /\ params[KeyStemW].g.valid > 0

(***************************************************************************)
(* Claims about the group-count clamp.                                     *)
(***************************************************************************)
\* the divisors of n that a request of v allows
AllowedDivisors(n, v) ==
    {g \in 1..n : g <= v /\ n % g = 0}

\* C12: for n1 >= 1 and v1 >= 1, min_divisible_value(n1, v1) returns the
\* largest g with 1 <= g <= min(v1, n1) that divides n1.
C12_LargestAllowedDivisor ==
    (md_pc = "returned" /\ md_n1 >= 1 /\ md_v1 >= 1) =>
        /\ md_ret \in AllowedDivisors(md_n1, md_v1)
        /\ \A g \in AllowedDivisors(md_n1, md_v1) : g <= md_ret

\* 6 groups were requested for 8 channels, and 4 came back after the loop
\* had passed over 6 and 5
C12_Witness ==
    /\ md_pc = "returned"
    /\ md_n1 = 8 /\ md_v1 = 6 /\ md_ret = 4

\* C13: for n1 >= 1 and any integer v1, zero and negative ones included,
\* min_divisible_value(n1, v1) terminates and returns a value: it does not
\* raise, and its loop is never at a counter below -n1, from where n1 % v1
\* is n1 + v1 < 0 at every later iteration and the loop cannot end.
C13_ClampNeverFails ==
    md_n1 >= 1 =>
        /\ md_pc # "raised"
        /\ ~(md_pc = "loop" /\ md_v < -md_n1)

(***************************************************************************)
(* Claims about the convolutional layers.                                  *)
(***************************************************************************)
\* C14: constructing a ConvLayer, MBConvLayer or SeparableConvBn with a
\* kernel that is even on some axis fails; when the kernel is odd, the
\* padding of the layer's convolution is, on each axis, kernel // 2 times
\* the dilation on that axis.
C14_OddKernelSamePadding ==
    cl_state # "none" =>
        /\ (\E i \in 1..2 : cl_kernel[i] % 2 = 0) => cl_state = "raised"
        /\ cl_state = "ok" =>
                \A i \in 1..2 :
                    cl_conv.pad[i] = (cl_kernel[i] \div 2) * cl_dilation[i]

\* the calls of the last step on the optimizers, the data sources and the
\* loss, in the order they were made
StepCalls ==
    SelectSeq(s_log,
              LAMBDA c : c[1] \in {"zero_grad", "update", "next",
                                   "loss.forward", "loss.backward"})

\* C25: a training (validation) step calls, in this order, zero_grad on the
\* phase's optimizer once, then accum_train (accum_valid) times a batch
\* from the phase's data source, the loss forward and the backward, then
\* update on the phase's optimizer once; nothing of the other phase is
\* called and no update falls between micro-batches.
C25_StepCallOrder ==
    last_step \in {"train", "valid"} =>
        LET n == accum[last_step]
        IN  /\ Len(StepCalls) = 3 * n + 2
            /\ Len(s_batches) = n
            /\ StepCalls[1] = <<"zero_grad", last_step>>
            /\ StepCalls[3 * n + 2] = <<"update", last_step>>
            /\ \A i \in 1..n :
                /\ StepCalls[3 * i - 1] = <<"next", last_step>>
                /\ StepCalls[3 * i] = <<"loss.forward", last_step>>
                /\ StepCalls[3 * i + 1] = <<"loss.backward", last_step>>
            /\ \A j \in DOMAIN s_log : s_log[j][2] = last_step

\* a training step over two micro-batches: eight calls, one update at the end
C25_Witness ==
    /\ last_step = "train" /\ accum.train = 2 /\ s_batches = <<1, 2>>
    /\ StepCalls = <<(<<"zero_grad", "train">>),
                     <<"next", "train">>, <<"loss.forward", "train">>,
                     <<"loss.backward", "train">>,
                     <<"next", "train">>, <<"loss.forward", "train">>,
                     <<"loss.backward", "train">>,
                     <<"update", "train">>>>

(***************************************************************************)
(* Claims about ZophCell.                                                  *)
(***************************************************************************)
\* parent i's extent is a whole multiple of the minimum on both axes
WholeRatio(i) ==
    \A a \in 1..2 : zc_parents[i][a + 2] % MinExtent(zc_parents)[a] = 0

\* the pooling adapters of the cell whose kernel or stride is not an integer
FractionalPools ==
    {j \in DOMAIN zc_nodes :
        /\ zc_nodes[j].kind = "MaxPool"
        /\ \E a \in 1..2 :
            \/ zc_nodes[j].kernel[a][1] % zc_nodes[j].kernel[a][2] # 0
            \/ zc_nodes[j].stride[a][1] % zc_nodes[j].stride[a][2] # 0}

\* C15: when some parent's extent divided by the minimum extent among the
\* parents is not an integer, the construction of the cell fails, and no
\* pooling adapter with a kernel or stride that is not an integer is ever
\* created.
C15_FractionalRatioRejected ==
    /\ (zc_state # "none" /\ \E i \in DOMAIN zc_parents : ~WholeRatio(i)) =>
            zc_state = "raised"
    /\ FractionalPools = {}

\* the shape-adaptation pools inserted for parent i (0-based as in the name)
AdaptPools(i) ==
    {j \in DOMAIN zc_nodes : zc_nodes[j].name = <<"shape_adapt_pool", i>>}

\* every parent's extent is a whole multiple of the minimum, and the cell
\* was built
WholeRatioCell ==
    /\ zc_state = "ok"
    /\ \A i \in DOMAIN zc_parents : WholeRatio(i)

\* a max-pooling adapter with kernel = stride = extent / minimum exists for
\* exactly the parents whose extent is not the minimum, on their projection
AdaptersAsNeeded ==
    \A i \in DOMAIN zc_parents :
        IF <<zc_parents[i][3], zc_parents[i][4]>> = MinExtent(zc_parents)
        THEN AdaptPools(i - 1) = {}
        ELSE /\ Cardinality(AdaptPools(i - 1)) = 1
             /\ \A j \in AdaptPools(i - 1) :
                    /\ zc_nodes[j].kind = "MaxPool"
                    /\ zc_nodes[j].parents = <<3 * i>>
                    /\ zc_nodes[j].kernel = zc_nodes[j].stride
                    /\ \A a \in 1..2 :
                        RatEq(zc_nodes[j].kernel[a],
                              <<zc_parents[i][a + 2] \div MinExtent(zc_parents)[a],
                                1>>)

\* the extent, on axis a, of input i as the blocks receive it
InputExtent(i, a) == NodeExtent(zc_parents, zc_nodes, zc_inputs[i], a, FALSE)

\* C20 as stated: in every cell whose parents' extents are whole multiples
\* of the per-axis minimum, the inputs handed to the blocks all have the
\* minimum extent, and an adapter with kernel = stride = ratio exists for
\* exactly the parents whose extent is not the minimum.
C20_InputsAtMinimumExtent ==
    WholeRatioCell =>
        /\ AdaptersAsNeeded
        /\ \A i \in DOMAIN zc_inputs : \A a \in 1..2 :
                InputExtent(i, a) = MinExtent(zc_parents)[a]

\* C20, amended: the adapters are as stated; the inputs handed to the blocks
\* all have the minimum extent in a cell that is not reducing, and that of
\* a 2x2 stride-2 pooling of the minimum extent in a reducing cell.
C20_InputsAtCommonExtent ==
    WholeRatioCell =>
        /\ AdaptersAsNeeded
        /\ \A i \in DOMAIN zc_inputs : \A a \in 1..2 :
                InputExtent(i, a) =
                    IF zc_reducing THEN PoolExtent(MinExtent(zc_parents)[a], 2, 2)
                    ELSE MinExtent(zc_parents)[a]

\* a cell on parents of 4x4 and 2x2: one adapter, of kernel 2x2 on the
\* first parent, and both inputs reach the blocks at 2x2
C20_Witness ==
    /\ zc_state = "ok" /\ ~zc_reducing
    /\ zc_parents = <<(<<1, 16, 4, 4>>), <<1, 16, 2, 2>>>>
    /\ AdaptPools(0) = {7} /\ AdaptPools(1) = {}
    /\ zc_nodes[7].kernel = <<(<<4, 2>>), <<4, 2>>>>
    /\ zc_inputs = <<7, 6>>
    /\ \A i \in 1..2 : \A a \in 1..2 : InputExtent(i, a) = 2

\* the reducing pools of the cell, and those inserted for parent i (0-based)
AllReducePools ==
    {j \in DOMAIN zc_nodes : zc_nodes[j].name[1] = "reduce_pool"}
ReducePools(i) ==
    {j \in DOMAIN zc_nodes : zc_nodes[j].name = <<"reduce_pool", i>>}
AllAdaptPools ==
    {j \in DOMAIN zc_nodes : zc_nodes[j].name[1] = "shape_adapt_pool"}

\* the shape-adapted input i: its adapter where there is one, else the
\* activation that ends its projection
AdaptedInput(i) ==
    IF AdaptPools(i - 1) = {} THEN 3 * i
    ELSE CHOOSE j \in AdaptPools(i - 1) : TRUE

\* the blocks of the cell, and the one named zoph_block_i
Blocks == {j \in DOMAIN zc_nodes : zc_nodes[j].kind = "ZophBlock"}
BlockAt(i) == {j \in DOMAIN zc_nodes : zc_nodes[j].name = <<"zoph_block", i>>}
BlockPos(i) == CHOOSE j \in BlockAt(i) : TRUE

\* C21: a reducing cell has exactly one 2x2 stride-2 max-pool per input,
\* appended after every shape-adaptation pool and consuming the adapted
\* input, and its blocks consume the reduced inputs; a cell that is not
\* reducing has no such pool.
C21_ReducingPools ==
    zc_state # "none" =>
        IF zc_reducing
        THEN /\ Cardinality(AllReducePools) = Len(zc_parents)
             /\ \A i \in DOMAIN zc_parents :
                    /\ Cardinality(ReducePools(i - 1)) = 1
                    /\ \A j \in ReducePools(i - 1) :
                        /\ zc_nodes[j].kind = "MaxPool"
                        /\ \A a \in 1..2 :
                            /\ RatEq(zc_nodes[j].kernel[a], <<2, 1>>)
                            /\ RatEq(zc_nodes[j].stride[a], <<2, 1>>)
                        /\ \A k \in AllAdaptPools : k < j
                        /\ zc_nodes[j].parents = <<AdaptedInput(i)>>
                        /\ zc_inputs[i] = j
             /\ \A b \in Blocks :
                    \A q \in DOMAIN zc_nodes[b].parents :
                        zc_nodes[b].parents[q] \in AllReducePools \cup Blocks
        ELSE /\ AllReducePools = {}
             /\ \A j \in DOMAIN zc_nodes :
                    zc_nodes[j].kind = "MaxPool" => j \in AllAdaptPools

\* a reducing cell on parents of 4x4 and 2x2: the adapter of the first
\* parent is node 7, the reducing pools are nodes 8 and 9 and consume the
\* adapter and the second projection, and the first block consumes 8 and 9
C21_Witness ==
    /\ zc_state = "ok" /\ zc_reducing
    /\ zc_parents = <<(<<1, 16, 4, 4>>), <<1, 16, 2, 2>>>>
    /\ AllAdaptPools = {7} /\ AllReducePools = {8, 9}
    /\ zc_nodes[8].parents = <<7>> /\ zc_nodes[9].parents = <<6>>
    /\ zc_nodes[10].kind = "ZophBlock" /\ zc_nodes[10].parents = <<8, 9>>

\* C22: a cell with n_modules = n holds exactly n blocks, appended in order,
\* and for every number of cell parents the parents of block i are all the
\* inputs handed to the blocks followed by the blocks 0..i-1.
C22_BlocksConsumeAllPrior ==
    zc_state = "ok" =>
        /\ Cardinality(Blocks) = zc_n_modules
        /\ \A i \in 0..(zc_n_modules - 1) :
            /\ Cardinality(BlockAt(i)) = 1
            /\ i > 0 => BlockPos(i) = BlockPos(i - 1) + 1
            /\ zc_nodes[BlockPos(i)].parents =
                    zc_inputs \o [m \in 1..i |-> BlockPos(m - 1)]

\* C23: the last module of every cell is a concatenation whose parents are
\* exactly the cell's blocks, one per block in block order, and it is the
\* only output concatenation of the cell.
C23_OutputConcatOverBlocks ==
    zc_state = "ok" =>
        LET last == zc_nodes[Len(zc_nodes)]
        IN  /\ last.kind = "Merging"
            /\ last.name = <<"output_concat", 0>>
            /\ \A j \in DOMAIN zc_nodes :
                    zc_nodes[j].kind = "Merging" => j = Len(zc_nodes)
            /\ last.parents = [m \in 1..zc_n_modules |-> BlockPos(m - 1)]

(***************************************************************************)
(* Claims about ZophBlock.                                                 *)
(***************************************************************************)
\* the candidate modules of the block, and the position of a named module
BlockCandidates ==
    {j \in DOMAIN zb_nodes :
        \E i \in 0..(Len(zb_nodes) - 1) :
            zb_nodes[j].name = <<"candidate", i>>}
BlockPosOf(name) == CHOOSE j \in DOMAIN zb_nodes : zb_nodes[j].name = name

\* C28: in every block the Join's parents are exactly the candidate
\* modules, one per candidate in candidate order and as many as the join
\* parameter vector is long; every candidate consumes the activation that
\* follows the input projection and its batch normalization; and every
\* module appended before the Join has a consumer in the block.
C28_BlockWiring ==
    zb_state = "ok" =>
        LET join == zb_nodes[Len(zb_nodes)]
        IN  /\ join.kind = "Join"
            /\ Len(join.parents) = Len(zb_candidates)
            /\ Len(join.parents) = zb_join_parameters
            /\ \A i \in DOMAIN zb_candidates :
                /\ zb_nodes[join.parents[i]].name = <<"candidate", i - 1>>
                /\ zb_nodes[join.parents[i]].kind = zb_candidates[i]
            /\ \A c \in BlockCandidates :
                    zb_nodes[c].parents = <<BlockPosOf(<<"input_conv/relu">>)>>
            /\ \A j \in 1..(Len(zb_nodes) - 1) :
                    \E c \in DOMAIN zb_nodes :
                        \E q \in DOMAIN zb_nodes[c].parents :
                            zb_nodes[c].parents[q] = j

(***************************************************************************)
(* Claims about SearchNet and TrainNet.                                    *)
(***************************************************************************)
\* the position of a module of the network by its name, 0 if there is none
NetPos(name) ==
    IF \E j \in DOMAIN sn_nodes : sn_nodes[j].name = name
    THEN CHOOSE j \in DOMAIN sn_nodes : sn_nodes[j].name = name
    ELSE 0

C29_TrainNetIsSearchNetMax ==
    sn_kind = "TrainNet" =>
        LET r == SearchNet_construct(sn_args, "max")
        IN  /\ sn_state = r.state
            /\ sn_nodes = r.nodes
            /\ sn_wiring = r.wiring
            /\ sn_attrs = r.attrs
            /\ sn_attrs.candidates = sn_args.candidates
            /\ sn_attrs.cell_channels = sn_args.cell_channels

====
